---- MODULE Spec2Model ----
(***************************************************************************)
(* Flux mode of voxt: the energy VAD (FluxVAD), the segmenting consumer    *)
(* loop (FluxRunner._consume_loop), the audio callback with its bounded    *)
(* queue, and the per-segment transcription workers.                       *)
(*                                                                         *)
(* A frame is abstracted to its arrival number and its level: every        *)
(* decision the code takes on a frame goes through _dbfs_of(frame), and    *)
(* all frames have the same length N, so a segment's size is its number of *)
(* frames times N and its mean square is the mean of its frames' mean      *)
(* squares.  Levels are fixed-point, in centi-dB (1/100 dB).               *)
(*                                                                         *)
(* The consumer processes one frame per step; the other threads (audio     *)
(* callback, GUI/IPC control calls, transcription workers) interleave      *)
(* between frames.  request_recalibration is two steps, so that the        *)
(* consumer can see the VAD calibrating before the runner's flag is set.   *)
(***************************************************************************)
EXTENDS Integers, Sequences, FiniteSets, TLC

VARIABLES
    cfg,                 \* cfg.data values read by FluxRunner.__init__ (read-only afterwards)
    vad,                 \* FluxVAD: noise_db, noise_ema, speaking, calibrating, calib_frames_target/done
    noise_mag,           \* NoiseSuppressor.noise_mag of FluxRunner.ns: << >> is None, << m >> is learned
    ns_call,             \* the last call of ns.enhance: baseline at the call, argument, result
    runner_calibrating,  \* FluxRunner._calibrating
    paused,              \* FluxRunner._paused
    pre_roll,            \* FluxRunner.pre_roll   (deque, maxlen = pre_roll_frames)
    seg_frames,          \* FluxRunner.seg_frames
    in_speech,           \* FluxRunner.in_speech
    speech_run,          \* FluxRunner.speech_run
    silence_run,         \* FluxRunner.silence_run
    cooldown_run,        \* FluxRunner.cooldown_run
    q,                   \* FluxRunner.q          (queue.Queue, bounded)
    cons_pc,             \* position of the consumer thread in _consume_loop
    mon_lock,            \* holder of FluxRunner._mon_lock
    mon_frames,          \* FluxRunner._mon_frames
    mon_q,               \* FluxRunner.mon_q      (queue.Queue, bounded)
    last_metrics,        \* FluxRunner._last_metrics
    gui_view,            \* FluxGUI: position in _on_timer, and the thresholds it last drew
    stop,                \* FluxRunner.stop       (threading.Event)
    stopped,             \* when stop was set: frames processed by then, and where the consumer was
    run,                 \* FluxRunner.run: its position, the diagnostics written, the threads joined
    workers,             \* the threads started by _transcribe_async, in start order
    files,               \* the WAV files in voxt_temp: pairs << path, segment written to it >>
    outputs,             \* what reached clipboard / typer / logger, in delivery order
    gui_pc,              \* position of the GUI thread inside request_recalibration
    commands,            \* control API calls (set_paused, request_recalibration, ...) so far
    cmds,                \* the writes of those calls where a run records them (TwinRunSpec)
    arrived,             \* number of _callback invocations so far
    warnings,            \* number of "Audio queue overflow" messages written by verr
    hist,                \* frames dequeued by the consumer, in processing order
    finalized,           \* every audio handed to _transcribe_async, with where it opened/closed
    open_at,             \* position in hist of the frame that opened the current segment
    last_step            \* what the consumer did with the last frame it processed

vars == << cfg, vad, noise_mag, ns_call, stopped, run, mon_lock, mon_frames, mon_q, last_metrics,
           gui_view, runner_calibrating, paused, pre_roll, seg_frames, in_speech,
           speech_run, silence_run, cooldown_run, q, cons_pc, stop, workers, files,
           outputs, gui_pc, commands, cmds, arrived, warnings, hist, finalized, open_at,
           last_step >>

-----------------------------------------------------------------------------
(* Bounds of the model *)

MaxFrames == 5      \* frames the audio device delivers in one run
QueueMax == 2       \* stands for queue.Queue(maxsize=256), scaled down
MaxCommands == 1    \* control API calls (pause toggles, recalibration requests) in one run
RecalMs == 60       \* duration passed to request_recalibration (5.0 s in the GUI), scaled down
MaxWorkersFrames == 6   \* frames delivered in a run of WorkersSpec
MaxTwinFrames == 4      \* frames delivered in a run of TwinRunSpec
MaxAudio == 3           \* samples of the audio given to enhance in NsSpec
MaxMonFrames == 3       \* frames delivered in a run of MonSpec

-----------------------------------------------------------------------------
(* Program constants; levels and margins in centi-dB (6.0 dB is 600) *)

frame_ms == 30
MinAsyncFrames == 3
start_margin_db == 600
keep_margin_db == 300
abs_start_db == -3300
abs_keep_db == -3700
init_noise_db == -6000
noise_ema == 5           \* 0.05, in hundredths

Max(a, b) == IF a >= b THEN a ELSE b
Min(a, b) == IF a <= b THEN a ELSE b

\* Levels (centi-dB) a frame can have: silence, between the default keep and
\* start thresholds, and loud.
Levels == { -7000, -3500, -3000 }

\* _dbfs_of(frame) is the frame's level; its mean square, in units of 1e-7
\* (10^(dB/10), rounded to the unit).
PowerOf(lvl) ==
    CASE lvl = -7000 -> 1
      [] lvl = -3500 -> 3162
      [] lvl = -3000 -> 10000
      [] lvl = -2000 -> 100000

\* 10^(min_rms_dbfs/10) in tenths of the unit of PowerOf.
MinPower10(db) ==
    CASE db = -4500 -> 3162
      [] db = -3200 -> 63096

-----------------------------------------------------------------------------
(* Configuration: FluxRunner.__init__ *)

Config(silence, speech, pre, post, seg, cool, rms, calib) ==
    [ min_silence_ms |-> silence, min_speech_ms |-> speech, pre_roll_ms |-> pre,
      post_roll_ms |-> post, min_segment_ms |-> seg, cooldown_ms |-> cool,
      min_rms_dbfs |-> rms, calib_ms |-> calib, fs |-> 16000, save_audio |-> FALSE,
      monitor |-> FALSE ]

\* DEFAULT_CONFIG, and calib_sec = 0 (no calibration window)
DefaultConfig == Config(500, 200, 150, 150, 600, 250, -4500, 0)

\* The configurations explored: the default ratios scaled down to a few frames.
Configs ==
    { Config(30, 60, 60, 30, 120, 90, -4500, 0),
      Config(30, 60, 60, 0, 120, 90, -4500, 0),
      Config(30, 60, 60, 0, 90, 90, -3200, 30) }

N == (cfg.fs * frame_ms) \div 1000
min_silence_frames == Max(1, cfg.min_silence_ms \div frame_ms)
min_speech_frames == Max(1, cfg.min_speech_ms \div frame_ms)
pre_roll_frames == Max(0, cfg.pre_roll_ms \div frame_ms)
post_roll_frames == Max(0, cfg.post_roll_ms \div frame_ms)
cooldown_frames == Max(1, cfg.cooldown_ms \div frame_ms)

-----------------------------------------------------------------------------
(* FluxVAD *)

\* (1 - noise_ema) * noise_db + noise_ema * lvl, rounded to the centi-dB
Ema(v, lvl) == ((100 - v.noise_ema) * v.noise_db + v.noise_ema * lvl + 50) \div 100

CalibTarget(ms) == Max(1, ms \div frame_ms)

BeginCalibration(v, ms) ==
    [ v EXCEPT !.calibrating = TRUE,
               !.calib_frames_done = 0,
               !.calib_frames_target = CalibTarget(ms) ]

FeedCalibration(v, lvl) ==
    LET noise == IF v.calib_frames_done = 0 THEN lvl ELSE Ema(v, lvl)
        done == v.calib_frames_done + 1
    IN  [ v EXCEPT !.noise_db = noise,
                   !.calib_frames_done = done,
                   !.calibrating = IF done >= v.calib_frames_target
                                   THEN FALSE ELSE v.calibrating ]

\* get_thresholds_db with the absolute bound applied as a ceiling instead of a floor
StartThrMinClamp(noise) == Min(noise + start_margin_db, abs_start_db)

StartThr(noise) == Max(noise + start_margin_db, abs_start_db)
KeepThr(noise) == Max(noise + keep_margin_db, abs_keep_db)

\* is_speech without its calibration branch (lines 173-176 left out)
IsSpeechNoCalibration(v, lvl) ==
    LET noise == IF v.speaking THEN v.noise_db ELSE Ema(v, lvl)
    IN  [ v EXCEPT !.noise_db = noise,
                   !.speaking = IF v.speaking THEN lvl >= KeepThr(noise)
                                              ELSE lvl >= StartThr(noise) ]

\* is_speech with one threshold: the start threshold also decides whether to keep speaking
IsSpeechOneThreshold(v, lvl) ==
    IF v.calibrating
    THEN [ FeedCalibration(v, lvl) EXCEPT !.speaking = FALSE ]
    ELSE LET noise == IF v.speaking THEN v.noise_db ELSE Ema(v, lvl)
         IN  [ v EXCEPT !.noise_db = noise, !.speaking = lvl >= StartThr(noise) ]

\* is_speech that gives up on a frame (answers false) when more frames are
\* waiting in the queue behind it
IsSpeechSheddingLoad(v, lvl) ==
    IF Len(q) > 1
    THEN [ v EXCEPT !.speaking = FALSE ]
    ELSE IF v.calibrating
    THEN [ FeedCalibration(v, lvl) EXCEPT !.speaking = FALSE ]
    ELSE LET noise == IF v.speaking THEN v.noise_db ELSE Ema(v, lvl)
         IN  [ v EXCEPT !.noise_db = noise,
                        !.speaking = IF v.speaking THEN lvl >= KeepThr(noise)
                                                   ELSE lvl >= StartThr(noise) ]

\* is_speech that moves the noise floor on every frame, speaking or not
IsSpeechAlwaysAdapting(v, lvl) ==
    IF v.calibrating
    THEN [ FeedCalibration(v, lvl) EXCEPT !.speaking = FALSE ]
    ELSE LET noise == Ema(v, lvl)
         IN  [ v EXCEPT !.noise_db = noise,
                        !.speaking = IF v.speaking THEN lvl >= KeepThr(noise)
                                                   ELSE lvl >= StartThr(noise) ]

\* is_speech: the new VAD state; its speaking field is the value returned
IsSpeech(v, lvl) ==
    IF v.calibrating
    THEN [ FeedCalibration(v, lvl) EXCEPT !.speaking = FALSE ]
    ELSE LET noise == IF v.speaking THEN v.noise_db ELSE Ema(v, lvl)
         IN  [ v EXCEPT !.noise_db = noise,
                        !.speaking = IF v.speaking THEN lvl >= KeepThr(noise)
                                                   ELSE lvl >= StartThr(noise) ]

VadInit ==
    [ noise_db |-> init_noise_db, noise_ema |-> noise_ema, speaking |-> FALSE,
      calibrating |-> FALSE, calib_frames_target |-> 0, calib_frames_done |-> 0 ]

-----------------------------------------------------------------------------
(* NoiseSuppressor.  A sample is an integer amplitude in units of 1e-4 of full  *)
(* scale.  The spectral subtraction is done on the samples' magnitudes, the     *)
(* sign standing for the phase: the transform pair (rfft, irfft), the window    *)
(* and the overlap-add are left out.  The baseline is one magnitude m, held as  *)
(* << m >>; << >> is None.                                                     *)

NsN == 2            \* frame_len, scaled down
NsHop == Max(1, NsN \div 2)
NsFloor == 1        \* 10^(floor_db / 20)
ns_ema == 2         \* 0.02, in hundredths

\* the magnitude of a frame of the given level: 10^(dB/20), in units of 1e-4
MagOf(lvl) ==
    CASE lvl = -7000 -> 3
      [] lvl = -3500 -> 178
      [] lvl = -3000 -> 316
      [] lvl = -2000 -> 1000

\* calibrate_with / update_noise
CalibrateWith(noise, mag) ==
    IF noise = << >> THEN << mag >>
    ELSE << ((100 - ns_ema) * noise[1] + ns_ema * mag + 50) \div 100 >>

Abs(x) == IF x < 0 THEN -x ELSE x

\* np.maximum(mag - oversub * noise_mag, floor), with the phase put back
Subtract(noise, x) ==
    LET clean == Max(Abs(x) - noise[1], NsFloor)
    IN  IF x < 0 THEN -clean ELSE clean

\* number of samples the overlap-added frames cover
Covered(size) == NsHop * ((size - NsN) \div NsHop) + NsN

\* enhance that does not test for a missing baseline: the subtraction then raises
EnhanceUnguarded(noise, audio) ==
    IF Len(audio) < NsN
    THEN [ raised |-> FALSE, out |-> audio ]
    ELSE IF noise = << >>
    THEN [ raised |-> TRUE, out |-> << >> ]
    ELSE [ raised |-> FALSE,
           out |-> [ k \in 1..Len(audio) |->
                       IF k <= Covered(Len(audio)) THEN Subtract(noise, audio[k])
                       ELSE 0 ] ]

\* enhance: what it returns, and whether it raised
Enhance(noise, audio) ==
    IF noise = << >> \/ Len(audio) < NsN
    THEN [ raised |-> FALSE, out |-> audio ]
    ELSE [ raised |-> FALSE,
           out |-> [ k \in 1..Len(audio) |->
                       IF k <= Covered(Len(audio)) THEN Subtract(noise, audio[k])
                       ELSE 0 ] ]

NoCall == [ noise |-> << >>, audio |-> << >>, raised |-> FALSE, out |-> << >>,
            called |-> FALSE ]

-----------------------------------------------------------------------------
(* FluxRunner: audio callback *)

\* q.put_nowait(x.copy()): queue.Full is raised when the queue holds maxsize items
QueueFull(queue) == Len(queue) >= QueueMax

\* a put that makes room by discarding the oldest queued frame
PutDropOldest(queue, f) ==
    IF QueueFull(queue) THEN Append(Tail(queue), f) ELSE Append(queue, f)

\* a put at the head of the queue (a stack)
PutAtHead(queue, f) == IF QueueFull(queue) THEN queue ELSE << f >> \o queue

PutNowait(queue, f) == IF QueueFull(queue) THEN queue ELSE Append(queue, f)

Callback(lvl) ==
    LET f == [ id |-> arrived + 1, lvl |-> lvl ]
    IN  /\ ~stop
        /\ arrived' = arrived + 1
        /\ q' = PutNowait(q, f)
        /\ warnings' = IF QueueFull(q) THEN warnings + 1 ELSE warnings
        /\ UNCHANGED << cfg, vad, runner_calibrating, paused, pre_roll, seg_frames,
                        in_speech, speech_run, silence_run, cooldown_run, stop, workers,
                        outputs, gui_pc, commands, hist, finalized, open_at, last_step,
                        files, cons_pc, cmds, noise_mag, ns_call, stopped, mon_lock,
                        mon_frames, mon_q, last_metrics, gui_view, run >>

-----------------------------------------------------------------------------
(* FluxRunner: consumer loop *)

\* every variable but the suppressor's, the monitor's and the consumer's position
otherVars ==
    << cfg, vad, stopped, run, runner_calibrating, paused, pre_roll, seg_frames, in_speech,
       speech_run, silence_run, cooldown_run, q, stop, workers, files, outputs, gui_pc,
       commands, cmds, arrived, warnings, hist, finalized, open_at, last_step >>

\* every variable but the suppressor's and the consumer's position
runnerVarsButPc ==
    << cfg, vad, stopped, run, mon_lock, mon_frames, mon_q, last_metrics, gui_view,
       runner_calibrating, paused, pre_roll, seg_frames, in_speech, speech_run,
       silence_run, cooldown_run, q, stop, workers, files, outputs, gui_pc,
       commands, cmds, arrived, warnings, hist, finalized, open_at, last_step >>

\* a pre-roll buffer that evicts nothing
PreRollAppendUnbounded(pr, f) == IF pre_roll_frames = 0 THEN << >> ELSE Append(pr, f)

\* deque(maxlen=pre_roll_frames).append
PreRollAppend(pr, f) ==
    IF pre_roll_frames = 0 THEN << >>
    ELSE IF Len(pr) < pre_roll_frames THEN Append(pr, f)
    ELSE Append(Tail(pr), f)

\* seg_frames[:-drop] for drop > 0, seg_frames for drop = 0
DropTail(seg, drop) == SubSeq(seg, 1, Len(seg) - drop)

\* finalize: the audio that is concatenated from the segment buffer
FinalAudio(seg, silence) == DropTail(seg, Min(silence, Len(seg)))

\* _transcribe_async: a worker thread is started unless audio.size < N * 3
StartsWorker(audio) == ~(Len(audio) * N < N * MinAsyncFrames)

\* a thread start that puts the new thread before those started earlier
ThreadStartFirst(ws, audio) ==
    << [ audio |-> audio, pc |-> "started", invoked |-> 0 ] >> \o ws

\* t = threading.Thread(target=self._do_transcribe, args=(audio,)); t.start()
ThreadStart(ws, audio) == Append(ws, [ audio |-> audio, pc |-> "started", invoked |-> 0 ])

NoFrame == [ id |-> 0, lvl |-> -7000 ]

NoStep == [ kind |-> "none", frame |-> NoFrame, before |-> VadInit,
            speaking |-> FALSE, opened |-> FALSE, closed |-> FALSE ]

\* a speech_run that a non-speech frame leaves as it is
SpeechRunKept(speaking, n) == IF speaking THEN n + 1 ELSE n

\* self.speech_run += 1 (speaking), self.speech_run = 0 (not speaking)
SpeechRun(speaking, n) == IF speaking THEN n + 1 ELSE 0

\* a silence_run that a speech frame leaves as it is
SilenceRunKept(speaking, n) == IF speaking THEN n ELSE n + 1

\* self.silence_run = 0 (speaking), self.silence_run += 1 (not speaking)
SilenceRun(speaking, n) == IF speaking THEN 0 ELSE n + 1

\* a segment buffer that finalizing leaves as it is
SegFramesKept(closes, seg) == seg

\* self.seg_frames = [] on the finalizing frame
SegFramesAfter(closes, seg) == IF closes THEN << >> ELSE seg

\* One frame through the calibration / pause / detection branches.
\* speaking is the local variable of the loop body.
Process(frame, vad2, speaking, kind) ==
    LET opens   == speaking /\ ~in_speech
                   /\ SpeechRun(speaking, speech_run) >= min_speech_frames
        seg1    == IF speaking
                   THEN IF ~in_speech
                        THEN IF opens THEN Append(pre_roll, frame) ELSE seg_frames
                        ELSE Append(seg_frames, frame)
                   ELSE IF in_speech THEN Append(seg_frames, frame) ELSE seg_frames
        closes  == ~speaking /\ in_speech
                   /\ SilenceRun(speaking, silence_run)
                          >= min_silence_frames + post_roll_frames
        audio   == FinalAudio(seg1, SilenceRun(speaking, silence_run))
    IN  /\ vad' = vad2
        /\ speech_run' = SpeechRun(speaking, speech_run)
        /\ silence_run' = IF closes THEN 0 ELSE SilenceRun(speaking, silence_run)
        /\ cooldown_run' = IF closes THEN cooldown_frames
                           ELSE IF speaking /\ cooldown_run > 0 THEN cooldown_run - 1
                           ELSE cooldown_run
        /\ in_speech' = IF opens THEN TRUE ELSE IF closes THEN FALSE ELSE in_speech
        /\ seg_frames' = SegFramesAfter(closes, seg1)
        /\ pre_roll' = IF ~speaking /\ ~in_speech THEN PreRollAppend(pre_roll, frame)
                       ELSE pre_roll
        /\ open_at' = IF opens THEN Len(hist) + 1 ELSE open_at
        /\ finalized' = IF closes
                        THEN Append(finalized, [ audio |-> audio, opened |-> open_at,
                                                 closed |-> Len(hist) + 1,
                                                 worker |-> IF StartsWorker(audio)
                                                            THEN Len(workers) + 1 ELSE 0 ])
                        ELSE finalized
        /\ workers' = IF closes /\ StartsWorker(audio)
                      THEN ThreadStart(workers, audio)
                      ELSE workers
        /\ last_step' = [ kind |-> kind, frame |-> frame, before |-> vad,
                          speaking |-> speaking, opened |-> opens, closed |-> closes ]

\* a loop body without the pause branch
SkipsPauseBranch == FALSE

\* if self._paused: (reached only when the runner is not calibrating)
TakesPauseBranch == paused

\* One frame taken from the queue and put through the loop body.
ConsumeFrame ==
    /\ q # << >>
    /\ LET frame == Head(q)
       IN  /\ q' = Tail(q)
           /\ hist' = Append(hist, frame)
           /\ IF runner_calibrating
              THEN LET vad2 == FeedCalibration(vad, frame.lvl)
                   IN  /\ runner_calibrating' = vad2.calibrating
                       /\ noise_mag' = CalibrateWith(noise_mag, MagOf(frame.lvl))
                       /\ Process(frame, vad2, FALSE, "calib")
              ELSE IF TakesPauseBranch
              THEN /\ pre_roll' = PreRollAppend(pre_roll, frame)
                   /\ last_step' = [ kind |-> "paused", frame |-> frame, before |-> vad,
                                     speaking |-> FALSE,
                                     opened |-> FALSE, closed |-> FALSE ]
                   /\ UNCHANGED << vad, noise_mag, runner_calibrating, seg_frames, in_speech,
                                   speech_run, silence_run, cooldown_run, workers,
                                   finalized, open_at >>
              ELSE LET vad2 == IsSpeech(vad, frame.lvl)
                   IN  /\ UNCHANGED runner_calibrating
                       /\ noise_mag' = CalibrateWith(noise_mag, MagOf(frame.lvl))
                       /\ Process(frame, vad2, vad2.speaking, "detect")
    /\ UNCHANGED << cfg, paused, stop, outputs, gui_pc, commands, cmds, arrived, warnings,
                    files, ns_call, stopped, mon_lock, mon_frames, mon_q, last_metrics,
                    gui_view, run >>

\* Where the consumer goes after the body: with monitoring it publishes the frame,
\* to mon_q first unless the frame was taken by the pause branch.
AfterBody ==
    IF ~cfg.monitor THEN "top"
    ELSE IF last_step'.kind = "paused" THEN "mon_lock"
    ELSE "mon_put"

\* a loop that waits for the running transcription workers before its next frame
ConsumeJoiningWorkers ==
    /\ \A w \in 1..Len(workers) : workers[w].pc \notin { "started", "transcribing" }
    /\ ~stop
    /\ cons_pc = "top"
    /\ ConsumeFrame
    /\ cons_pc' = AfterBody

\* One iteration of the loop as one step: the stop check, q.get and the body.
Consume ==
    /\ ~stop
    /\ cons_pc = "top"
    /\ ConsumeFrame
    /\ cons_pc' = AfterBody

\* The iteration in its steps.  The loop condition that does not look at stop:
LoopTopIgnoringStop ==
    /\ cons_pc = "top"
    /\ cons_pc' = "get"
    /\ UNCHANGED << noise_mag, ns_call, runnerVarsButPc >>

\* a loop that hands the open segment to a worker when it finds stop set
LoopTopFlushing ==
    /\ cons_pc = "top"
    /\ cons_pc' = IF stop THEN "exit" ELSE "get"
    /\ IF stop /\ in_speech
       THEN /\ finalized' = Append(finalized,
                                   [ audio |-> seg_frames, opened |-> open_at,
                                     closed |-> Len(hist),
                                     worker |-> IF StartsWorker(seg_frames)
                                                THEN Len(workers) + 1 ELSE 0 ])
            /\ workers' = IF StartsWorker(seg_frames)
                          THEN ThreadStart(workers, seg_frames) ELSE workers
            /\ seg_frames' = << >>
            /\ in_speech' = FALSE
            /\ UNCHANGED << noise_mag, ns_call, cfg, vad, stopped, run, mon_lock,
                            mon_frames, mon_q, last_metrics, gui_view,
                            runner_calibrating, paused, pre_roll, speech_run,
                            silence_run, cooldown_run, q, stop, files, outputs, gui_pc,
                            commands, cmds, arrived, warnings, hist, open_at,
                            last_step >>
       ELSE UNCHANGED << noise_mag, ns_call, runnerVarsButPc >>

\* while not self.stop.is_set()
LoopTop ==
    /\ cons_pc = "top"
    /\ cons_pc' = IF stop THEN "exit" ELSE "get"
    /\ UNCHANGED << noise_mag, ns_call, runnerVarsButPc >>

\* q.get(timeout=0.1) returns a frame, and the body runs on it
LoopGet ==
    /\ cons_pc = "get"
    /\ ConsumeFrame
    /\ cons_pc' = AfterBody

\* q.get(timeout=0.1) raises queue.Empty: continue
LoopTimeout ==
    /\ cons_pc = "get"
    /\ q = << >>
    /\ cons_pc' = "top"
    /\ UNCHANGED << noise_mag, ns_call, runnerVarsButPc >>

-----------------------------------------------------------------------------
(* FluxRunner: publication for the monitor, and FluxGUI._on_timer *)

MonFramesMax == 2   \* _mon_frames_max (10 s of frames), scaled down
MonQueueMax == 2    \* stands for queue.Queue(maxsize=1024), scaled down
GuiDrainMax == 8

\* vad.metrics(frame)
Metrics(v, frame) ==
    [ db |-> frame.lvl, noise_db |-> v.noise_db, start_thr_db |-> StartThr(v.noise_db),
      keep_thr_db |-> KeepThr(v.noise_db), speaking |-> v.speaking, of |-> frame.id ]

NoMetrics == Metrics(VadInit, NoFrame)

NoView == [ pc |-> "idle", seen |-> FALSE, start_thr_db |-> 0, keep_thr_db |-> 0 ]

\* self.mon_q.put_nowait(frame); queue.Full is passed over
MonPut ==
    /\ cons_pc = "mon_put"
    /\ mon_q' = IF Len(mon_q) >= MonQueueMax THEN mon_q ELSE Append(mon_q, last_step.frame)
    /\ cons_pc' = "mon_lock"
    /\ UNCHANGED << mon_lock, mon_frames, last_metrics, gui_view >>
    /\ UNCHANGED << noise_mag, ns_call, otherVars >>

\* with self._mon_lock: entered
MonAcquire ==
    /\ cons_pc = "mon_lock"
    /\ mon_lock = "free"
    /\ mon_lock' = "consumer"
    /\ cons_pc' = "mon_append"
    /\ UNCHANGED << mon_frames, mon_q, last_metrics, gui_view >>
    /\ UNCHANGED << noise_mag, ns_call, otherVars >>

\* the block under the lock: append, trim to the last _mon_frames_max; lock released
MonAppend ==
    /\ cons_pc = "mon_append"
    /\ mon_frames' = LET all == Append(mon_frames, last_step.frame)
                     IN  SubSeq(all, Max(1, Len(all) - MonFramesMax + 1), Len(all))
    /\ mon_lock' = "free"
    /\ cons_pc' = "mon_metrics"
    /\ UNCHANGED << mon_q, last_metrics, gui_view >>
    /\ UNCHANGED << noise_mag, ns_call, otherVars >>

\* self._last_metrics = self.vad.metrics(frame), after the with block
MonMetrics ==
    /\ cons_pc = "mon_metrics"
    /\ last_metrics' = Metrics(vad, last_step.frame)
    /\ cons_pc' = "top"
    /\ UNCHANGED << mon_lock, mon_frames, mon_q, gui_view >>
    /\ UNCHANGED << noise_mag, ns_call, otherVars >>

\* _on_timer: up to 8 frames are taken from mon_q
GuiDrain ==
    /\ gui_view.pc = "idle"
    /\ mon_q' = SubSeq(mon_q, Min(GuiDrainMax, Len(mon_q)) + 1, Len(mon_q))
    /\ gui_view' = [ gui_view EXCEPT !.pc = IF mon_q = << >> THEN "fallback" ELSE "plot",
                                     !.seen = @ \/ mon_q # << >> ]
    /\ UNCHANGED << mon_lock, mon_frames, last_metrics, cons_pc >>
    /\ UNCHANGED << noise_mag, ns_call, otherVars >>

\* _on_timer, nothing drained: with self.runner._mon_lock entered
GuiAcquire ==
    /\ gui_view.pc = "fallback"
    /\ mon_lock = "free"
    /\ mon_lock' = "gui"
    /\ gui_view' = [ gui_view EXCEPT !.pc = "locked" ]
    /\ UNCHANGED << mon_frames, mon_q, last_metrics, cons_pc >>
    /\ UNCHANGED << noise_mag, ns_call, otherVars >>

\* the last of _mon_frames is taken, if any; lock released
GuiReadLast ==
    /\ gui_view.pc = "locked"
    /\ mon_lock' = "free"
    /\ gui_view' = [ gui_view EXCEPT !.pc = "plot", !.seen = @ \/ mon_frames # << >> ]
    /\ UNCHANGED << mon_frames, mon_q, last_metrics, cons_pc >>
    /\ UNCHANGED << noise_mag, ns_call, otherVars >>

\* the plot update: the threshold lines are read from the VAD (get_thresholds_db)
\* once a frame has been drawn
GuiThresholds ==
    /\ gui_view.pc = "plot"
    /\ gui_view' = IF gui_view.seen
                   THEN [ gui_view EXCEPT !.pc = "idle",
                                          !.start_thr_db = StartThr(vad.noise_db),
                                          !.keep_thr_db = KeepThr(vad.noise_db) ]
                   ELSE [ gui_view EXCEPT !.pc = "idle" ]
    /\ UNCHANGED << mon_lock, mon_frames, mon_q, last_metrics, cons_pc >>
    /\ UNCHANGED << noise_mag, ns_call, otherVars >>

-----------------------------------------------------------------------------
(* FluxRunner: transcription workers (_do_transcribe) *)

SumPower(audio) ==
    LET RECURSIVE Sum(_)
        Sum(k) == IF k = 0 THEN 0 ELSE PowerOf(audio[k].lvl) + Sum(k - 1)
    IN  Sum(Len(audio))

\* seg_ms = int(1000 * audio.size / max(self.fs, 1))
SegMs(audio) == (1000 * Len(audio) * N) \div Max(cfg.fs, 1)

\* the duration filter with the division by fs forgotten
TooShortNoRate(audio) == 1000 * Len(audio) * N < cfg.min_segment_ms

TooShort(audio) == SegMs(audio) < cfg.min_segment_ms

\* seg_db < db, compared as mean squares: sum / len < 10^(db / 10)
SegDbBelow(audio, db) == 10 * SumPower(audio) < MinPower10(db) * Len(audio)

\* the level filter with the comparison reversed
TooQuietReversed(audio) == ~SegDbBelow(audio, cfg.min_rms_dbfs)

TooQuiet(audio) == SegDbBelow(audio, cfg.min_rms_dbfs)

\* wav_path: flux_<timestamp>.wav when recordings are kept (the timestamp has
\* microseconds: one path per worker, written i), else the one flux_last.wav
\* (written 0)
WavPath(i) == IF cfg.save_audio THEN i ELSE 0

\* _write_wav_mono16(wav_path, audio): the file holds segment seg afterwards
WriteWav(fs, path, seg) == { f \in fs : f[1] # path } \cup { << path, seg >> }

\* audio_file.unlink()
Unlink(fs, path) == { f \in fs : f[1] # path }

Exists(fs, path) == \E f \in fs : f[1] = path

\* the segment whose audio the file at path holds
Content(fs, path) == (CHOOSE f \in fs : f[1] = path)[2]

\* The worker's first part: the two filters, then noise suppression, resampling
\* and the WAV file.  Of the file only whose segment it holds is kept.
WorkerFilter(i) ==
    /\ workers[i].pc = "started"
    /\ workers' = [ workers EXCEPT ![i] =
                      IF TooShort(@.audio) THEN [ @ EXCEPT !.pc = "drop_short" ]
                      ELSE IF TooQuiet(@.audio) THEN [ @ EXCEPT !.pc = "drop_quiet" ]
                      ELSE [ @ EXCEPT !.pc = "transcribing" ] ]
    /\ files' = IF TooShort(workers[i].audio) \/ TooQuiet(workers[i].audio)
                THEN files ELSE WriteWav(files, WavPath(i), i)
    /\ UNCHANGED << cfg, vad, runner_calibrating, paused, pre_roll, seg_frames, in_speech,
                    speech_run, silence_run, cooldown_run, q, stop, outputs, gui_pc,
                    commands, arrived, warnings, hist, finalized, open_at, last_step,
                    cons_pc, cmds, noise_mag, ns_call, stopped, mon_lock, mon_frames,
                    mon_q, last_metrics, gui_view, run >>

\* What whisper can do once transcriber.transcribe has found its input: give a
\* text, give an empty text, fail (transcribe returns None), or raise.
TranscribeResults == { "text", "empty", "none", "raise" }

\* transcribe deletes its input after a successful whisper run
DeletesInput(r) == ~cfg.save_audio /\ r \in { "text", "empty" }

\* The worker's second part: transcriber.transcribe(wav_path) as one step (the
\* existence check, the whisper run on what the file holds then, the deletion of
\* the input), and the output sinks.
WorkerFinish(i, r) ==
    LET path  == WavPath(i)
        found == Exists(files, path)
    IN  /\ workers[i].pc = "transcribing"
        /\ workers' = [ workers EXCEPT ![i] =
                          [ @ EXCEPT !.invoked = @ + 1,
                                     !.pc = IF ~found THEN "failed"
                                            ELSE CASE r = "text" -> "done"
                                                   [] r = "empty" -> "no_text"
                                                   [] r = "none" -> "no_text"
                                                   [] r = "raise" -> "failed" ] ]
        /\ files' = IF found /\ DeletesInput(r) THEN Unlink(files, path) ELSE files
        /\ outputs' = IF found /\ r = "text"
                      THEN Append(outputs, [ worker |-> i, seg |-> Content(files, path) ])
                      ELSE outputs
        /\ UNCHANGED << cfg, vad, runner_calibrating, paused, pre_roll, seg_frames,
                        in_speech, speech_run, silence_run, cooldown_run, q, stop, gui_pc,
                        commands, arrived, warnings, hist, finalized, open_at, last_step,
                        cons_pc, cmds, noise_mag, ns_call, stopped, mon_lock, mon_frames,
                        mon_q, last_metrics, gui_view, run >>

-----------------------------------------------------------------------------
(* Control API used by the GUI and IPC threads, and shutdown *)

\* a write of a control call, made when Len(hist) frames had been processed
Cmd(op, arg) == [ at |-> Len(hist), op |-> op, arg |-> arg ]

SetPausedCall ==
    /\ commands < MaxCommands
    /\ commands' = commands + 1
    /\ paused' = ~paused
    /\ UNCHANGED << cfg, vad, runner_calibrating, pre_roll, seg_frames, in_speech,
                    speech_run, silence_run, cooldown_run, q, stop, workers, outputs,
                    gui_pc, arrived, warnings, hist, finalized, open_at, last_step, files,
                    cons_pc, noise_mag, ns_call, stopped, mon_lock, mon_frames, mon_q,
                    last_metrics, gui_view, run >>

SetPaused == SetPausedCall /\ UNCHANGED cmds

\* request_recalibration: vad.begin_calibration(duration), then
\* self._calibrating = True; the consumer can run between the two.
RequestRecalibrationCall ==
    /\ ~stop
    /\ IF gui_pc = "idle"
       THEN /\ commands < MaxCommands
            /\ commands' = commands + 1
            /\ vad' = BeginCalibration(vad, RecalMs)
            /\ gui_pc' = "flag"
            /\ UNCHANGED runner_calibrating
       ELSE /\ runner_calibrating' = TRUE
            /\ gui_pc' = "idle"
            /\ UNCHANGED << vad, commands >>
    /\ UNCHANGED << cfg, paused, pre_roll, seg_frames, in_speech, speech_run, silence_run,
                    cooldown_run, q, stop, workers, outputs, arrived, warnings, hist,
                    finalized, open_at, last_step, files, cons_pc, noise_mag, ns_call,
                    stopped, mon_lock, mon_frames, mon_q, last_metrics, gui_view, run >>

RequestRecalibration == RequestRecalibrationCall /\ UNCHANGED cmds

\* set_noise_drift_enabled(enabled): the VAD's EMA rate is the configured one or 0
SetNoiseDriftEnabledCall ==
    /\ commands < MaxCommands
    /\ commands' = commands + 1
    /\ \E enabled \in BOOLEAN :
           vad' = [ vad EXCEPT !.noise_ema = IF enabled THEN noise_ema ELSE 0 ]
    /\ UNCHANGED << cfg, runner_calibrating, paused, pre_roll, seg_frames, in_speech,
                    speech_run, silence_run, cooldown_run, q, stop, workers, files,
                    outputs, gui_pc, arrived, warnings, hist, finalized, open_at,
                    last_step, cons_pc, noise_mag, ns_call, stopped, mon_lock, mon_frames,
                    mon_q, last_metrics, gui_view, run >>

SetNoiseDriftEnabled == SetNoiseDriftEnabledCall /\ UNCHANGED cmds

\* run(): the input stream is closed, then self.stop.set()
Stop ==
    /\ ~stop
    /\ stop' = TRUE
    /\ stopped' = [ at |-> Len(hist), pc |-> cons_pc ]
    /\ UNCHANGED << cfg, vad, runner_calibrating, paused, pre_roll, seg_frames, in_speech,
                    speech_run, silence_run, cooldown_run, q, workers, outputs, gui_pc,
                    commands, arrived, warnings, hist, finalized, open_at, last_step,
                    files, cons_pc, cmds, noise_mag, ns_call, mon_lock, mon_frames, mon_q,
                    last_metrics, gui_view, run >>

-----------------------------------------------------------------------------
(* Specification *)

\* FluxRunner.__init__
Constructed(c) ==
    /\ cfg = c
    /\ noise_mag = << >>
    /\ ns_call = NoCall
    /\ runner_calibrating = (c.calib_ms > 0)
    /\ paused = FALSE
    /\ pre_roll = << >>
    /\ seg_frames = << >>
    /\ in_speech = FALSE
    /\ speech_run = 0
    /\ silence_run = 0
    /\ cooldown_run = 0
    /\ q = << >>
    /\ cons_pc = "top"
    /\ mon_lock = "free"
    /\ mon_frames = << >>
    /\ mon_q = << >>
    /\ last_metrics = NoMetrics
    /\ gui_view = NoView
    /\ stop = FALSE
    /\ stopped = [ at |-> 0, pc |-> "none" ]
    /\ workers = << >>
    /\ files = { }
    /\ outputs = << >>
    /\ gui_pc = "idle"
    /\ commands = 0
    /\ cmds = << >>
    /\ arrived = 0
    /\ warnings = 0
    /\ hist = << >>
    /\ finalized = << >>
    /\ open_at = 0
    /\ last_step = NoStep

\* threads are named by numbers: transcription worker i is i, self.worker is 0
ConsumerThread == 0

NotRun == [ pc |-> "start", diagnostics |-> 0, joined |-> { } ]

\* The session running: run() has begun the calibration window, started the
\* consumer thread and opened the input stream.
InitWith(c) ==
    /\ Constructed(c)
    /\ vad = IF c.calib_ms > 0 THEN BeginCalibration(VadInit, c.calib_ms) ELSE VadInit
    /\ run = [ NotRun EXCEPT !.pc = "streaming" ]

Init == \E c \in Configs : InitWith(c)

\* The audio device delivers one more frame, of any level.
Arrive == arrived < MaxFrames /\ \E lvl \in Levels : Callback(lvl)

Next ==
    \/ Arrive
    \/ Consume
    \/ \E i \in 1..Len(workers) : WorkerFilter(i)
    \/ \E i \in 1..Len(workers), r \in TranscribeResults : WorkerFinish(i, r)
    \/ SetPaused
    \/ RequestRecalibration
    \/ Stop

Spec == Init /\ [][Next]_vars

-----------------------------------------------------------------------------
(* The concrete scenario: default configuration, no calibration, 5 silent     *)
(* frames (-70 dBFS), 10 speech frames (-20 dBFS), 25 silent frames, fed      *)
(* without overflow.                                                          *)

Scenario ==
    [ i \in 1..5 |-> -7000 ] \o [ i \in 1..10 |-> -2000 ] \o [ i \in 1..25 |-> -7000 ]

ScenarioFeed ==
    /\ arrived < Len(Scenario)
    /\ ~QueueFull(q)
    /\ Callback(Scenario[arrived + 1])

ScenarioInit == InitWith(DefaultConfig)

ScenarioNext ==
    \/ ScenarioFeed
    \/ Consume
    \/ \E i \in 1..Len(workers) : WorkerFilter(i)

ScenarioSpec == ScenarioInit /\ [][ScenarioNext]_vars

-----------------------------------------------------------------------------
(* The runner with every control call of the GUI, the noise-drift toggle        *)
(* included.                                                                    *)

ControlNext ==
    \/ Arrive
    \/ Consume
    \/ SetPaused
    \/ RequestRecalibration
    \/ SetNoiseDriftEnabled

ControlSpec == Init /\ [][ControlNext]_vars

-----------------------------------------------------------------------------
(* Short segments in quick succession: one frame of speech opens a segment and *)
(* one silent frame closes it, so that several transcription workers are in    *)
(* flight together; recordings kept (save_audio) or not.                       *)

QuickConfig == Config(30, 30, 60, 0, 90, 90, -4500, 0)

WorkersInit == \E sa \in BOOLEAN : InitWith([ QuickConfig EXCEPT !.save_audio = sa ])

WorkersArrive == arrived < MaxWorkersFrames /\ \E lvl \in { -7000, -3000 } : Callback(lvl)

WorkersNext ==
    \/ WorkersArrive
    \/ Consume
    \/ \E i \in 1..Len(workers) : WorkerFilter(i)
    \/ \E i \in 1..Len(workers), r \in TranscribeResults : WorkerFinish(i, r)

WorkersSpec == WorkersInit /\ [][WorkersNext]_vars

-----------------------------------------------------------------------------
(* A second FluxRunner with the same configuration, as a value: its VAD, its   *)
(* flags and buffers, and the segments it has finalized.  It is given the      *)
(* frames the first runner has processed, one after the other, and the control *)
(* writes at the same places between them.                                     *)

TwinInit ==
    [ vad |-> IF cfg.calib_ms > 0 THEN BeginCalibration(VadInit, cfg.calib_ms)
              ELSE VadInit,
      calibrating |-> cfg.calib_ms > 0, paused |-> FALSE,
      pre_roll |-> << >>, seg_frames |-> << >>, in_speech |-> FALSE,
      speech_run |-> 0, silence_run |-> 0, segments |-> << >> ]

TwinCommand(t, c) ==
    CASE c.op = "set_paused" -> [ t EXCEPT !.paused = c.arg ]
      [] c.op = "begin_calibration" -> [ t EXCEPT !.vad = BeginCalibration(@, c.arg) ]
      [] c.op = "calibrating" -> [ t EXCEPT !.calibrating = TRUE ]
      [] c.op = "noise_drift" ->
             [ t EXCEPT !.vad.noise_ema = IF c.arg THEN noise_ema ELSE 0 ]

\* the loop body on one frame
TwinFrame(t, frame) ==
    IF ~t.calibrating /\ t.paused
    THEN [ t EXCEPT !.pre_roll = PreRollAppend(@, frame) ]
    ELSE LET vad2     == IF t.calibrating THEN FeedCalibration(t.vad, frame.lvl)
                         ELSE IsSpeech(t.vad, frame.lvl)
             speaking == ~t.calibrating /\ vad2.speaking
             t1       == [ t EXCEPT !.vad = vad2,
                                    !.calibrating = @ /\ vad2.calibrating ]
             spoken   == t.speech_run + 1
             sil      == t.silence_run + 1
             seg      == Append(t.seg_frames, frame)
         IN  IF speaking
             THEN IF t.in_speech
                  THEN [ t1 EXCEPT !.speech_run = spoken, !.silence_run = 0,
                                   !.seg_frames = seg ]
                  ELSE IF spoken >= min_speech_frames
                  THEN [ t1 EXCEPT !.speech_run = spoken, !.silence_run = 0,
                                   !.in_speech = TRUE,
                                   !.seg_frames = Append(t.pre_roll, frame) ]
                  ELSE [ t1 EXCEPT !.speech_run = spoken, !.silence_run = 0 ]
             ELSE IF ~t.in_speech
                  THEN [ t1 EXCEPT !.speech_run = 0, !.silence_run = sil,
                                   !.pre_roll = PreRollAppend(@, frame) ]
                  ELSE IF sil >= min_silence_frames + post_roll_frames
                  THEN [ t1 EXCEPT !.speech_run = 0, !.silence_run = 0,
                                   !.in_speech = FALSE, !.seg_frames = << >>,
                                   !.segments = Append(@, FinalAudio(seg, sil)) ]
                  ELSE [ t1 EXCEPT !.speech_run = 0, !.silence_run = sil,
                                   !.seg_frames = seg ]

\* the control writes logged at place n (after n frames), applied in their order
TwinCommands(t, n) ==
    LET RECURSIVE Apply(_)
        Apply(k) == IF k = 0 THEN t
                    ELSE IF cmds[k].at = n THEN TwinCommand(Apply(k - 1), cmds[k])
                    ELSE Apply(k - 1)
    IN  Apply(Len(cmds))

\* the second runner after the first n frames of hist
RECURSIVE Twin(_)
Twin(n) == IF n = 0 THEN TwinInit
           ELSE TwinFrame(TwinCommands(Twin(n - 1), n - 1), hist[n])

\* The first runner in a short run, with every control call.
TwinRunInit == \E c \in { QuickConfig, Config(30, 60, 60, 0, 90, 90, -3200, 30) } : InitWith(c)

TwinRunArrive == arrived < MaxTwinFrames /\ \E lvl \in { -7000, -3000 } : Callback(lvl)

\* the control calls, each write recorded for the second runner
RecordedSetPaused == SetPausedCall /\ cmds' = Append(cmds, Cmd("set_paused", paused'))

RecordedRequestRecalibration ==
    /\ RequestRecalibrationCall
    /\ cmds' = Append(cmds, IF gui_pc = "idle" THEN Cmd("begin_calibration", RecalMs)
                            ELSE Cmd("calibrating", TRUE))

RecordedSetNoiseDriftEnabled ==
    /\ SetNoiseDriftEnabledCall
    /\ cmds' = Append(cmds, Cmd("noise_drift", vad'.noise_ema # 0))

TwinRunNext ==
    \/ TwinRunArrive
    \/ Consume
    \/ RecordedSetPaused
    \/ RecordedRequestRecalibration
    \/ RecordedSetNoiseDriftEnabled

TwinRunSpec == TwinRunInit /\ [][TwinRunNext]_vars

-----------------------------------------------------------------------------
(* A NoiseSuppressor on its own: it is fed any number of frames, possibly none, *)
(* and then enhance is called once, on any audio of up to MaxAudio samples.     *)

Samples == { -316, 0, 3 }

Audios == UNION { [ 1..n -> Samples ] : n \in 0..MaxAudio }

runnerVars == << cfg, vad, stopped, run, mon_lock, mon_frames, mon_q, last_metrics, gui_view,
                 runner_calibrating, paused, pre_roll, seg_frames, in_speech,
                 speech_run, silence_run, cooldown_run, q, cons_pc, stop, workers, files,
                 outputs, gui_pc, commands, cmds, arrived, warnings, hist, finalized,
                 open_at, last_step >>

NsInit == InitWith(DefaultConfig)

NsFeed ==
    /\ ~ns_call.called
    /\ \E lvl \in Levels : noise_mag' = CalibrateWith(noise_mag, MagOf(lvl))
    /\ UNCHANGED << ns_call, runnerVars >>

NsEnhance ==
    /\ ~ns_call.called
    /\ \E x \in Audios :
           LET r == Enhance(noise_mag, x)
           IN  ns_call' = [ noise |-> noise_mag, audio |-> x, raised |-> r.raised,
                            out |-> r.out, called |-> TRUE ]
    /\ UNCHANGED << noise_mag, runnerVars >>

NsNext == NsFeed \/ NsEnhance

NsSpec == NsInit /\ [][NsNext]_vars

-----------------------------------------------------------------------------
(* Shutdown, with the consumer's iteration in its steps: the stop check, the   *)
(* queue pop (a frame or the timeout), the loop body.                          *)

StopNext ==
    \/ Arrive
    \/ LoopTop
    \/ LoopGet
    \/ LoopTimeout
    \/ Stop

StopSpec == Init /\ [][StopNext]_vars

-----------------------------------------------------------------------------
(* run() from its first line, headless: the calibration window and the         *)
(* consumer thread are started, the input stream is opened or fails to open,   *)
(* frames arrive until the user interrupts, then stop is set and the consumer  *)
(* thread is joined.                                                           *)

MaxRunFrames == 4       \* frames delivered in a run of RunSpec

\* lines 472-474: begin_calibration if configured, self.worker.start()
RunBegin ==
    /\ run.pc = "start"
    /\ vad' = IF runner_calibrating THEN BeginCalibration(vad, cfg.calib_ms) ELSE vad
    /\ run' = [ run EXCEPT !.pc = "open" ]
    /\ UNCHANGED << cfg, noise_mag, ns_call, stopped, mon_lock, mon_frames, mon_q,
                    last_metrics, gui_view, runner_calibrating, paused, pre_roll,
                    seg_frames, in_speech, speech_run, silence_run, cooldown_run, q,
                    cons_pc, stop, workers, files, outputs, gui_pc, commands, cmds,
                    arrived, warnings, hist, finalized, open_at, last_step >>

\* with sd.InputStream(...): entered, or an exception caught and reported by verr
RunOpen ==
    /\ run.pc = "open"
    /\ \E opened \in BOOLEAN :
           run' = IF opened THEN [ run EXCEPT !.pc = "streaming" ]
                  ELSE [ run EXCEPT !.pc = "failed", !.diagnostics = @ + 1 ]
    /\ UNCHANGED << noise_mag, ns_call, cfg, vad, stopped, mon_lock, mon_frames, mon_q,
                    last_metrics, gui_view, runner_calibrating, paused, pre_roll,
                    seg_frames, in_speech, speech_run, silence_run, cooldown_run, q,
                    cons_pc, stop, workers, files, outputs, gui_pc, commands, cmds,
                    arrived, warnings, hist, finalized, open_at, last_step >>

\* KeyboardInterrupt in the sleep loop: the with block is left, the stream closed
RunInterrupt ==
    /\ run.pc = "streaming"
    /\ run' = [ run EXCEPT !.pc = "closed" ]
    /\ UNCHANGED << noise_mag, ns_call, cfg, vad, stopped, mon_lock, mon_frames, mon_q,
                    last_metrics, gui_view, runner_calibrating, paused, pre_roll,
                    seg_frames, in_speech, speech_run, silence_run, cooldown_run, q,
                    cons_pc, stop, workers, files, outputs, gui_pc, commands, cmds,
                    arrived, warnings, hist, finalized, open_at, last_step >>

\* a run() that goes on to the join without setting stop
RunJoinWithoutStop ==
    /\ run.pc \in { "failed", "closed" }
    /\ run' = [ run EXCEPT !.pc = "join" ]
    /\ UNCHANGED << noise_mag, ns_call, cfg, vad, stopped, mon_lock, mon_frames, mon_q,
                    last_metrics, gui_view, runner_calibrating, paused, pre_roll,
                    seg_frames, in_speech, speech_run, silence_run, cooldown_run, q,
                    cons_pc, stop, workers, files, outputs, gui_pc, commands, cmds,
                    arrived, warnings, hist, finalized, open_at, last_step >>

\* self.stop.set()
RunStop ==
    /\ run.pc \in { "failed", "closed" }
    /\ stop' = TRUE
    /\ stopped' = [ at |-> Len(hist), pc |-> cons_pc ]
    /\ run' = [ run EXCEPT !.pc = "join" ]
    /\ UNCHANGED << noise_mag, ns_call, cfg, vad, mon_lock, mon_frames, mon_q,
                    last_metrics, gui_view, runner_calibrating, paused, pre_roll,
                    seg_frames, in_speech, speech_run, silence_run, cooldown_run, q,
                    cons_pc, workers, files, outputs, gui_pc, commands, cmds,
                    arrived, warnings, hist, finalized, open_at, last_step >>

\* self.worker.join(timeout=1.0): self.worker is the consumer thread; the call
\* returns when that thread has ended or when the timeout has passed
RunJoin ==
    /\ run.pc = "join"
    /\ run' = [ run EXCEPT !.pc = "returned", !.joined = @ \cup { ConsumerThread } ]
    /\ UNCHANGED << noise_mag, ns_call, cfg, vad, stopped, mon_lock, mon_frames, mon_q,
                    last_metrics, gui_view, runner_calibrating, paused, pre_roll,
                    seg_frames, in_speech, speech_run, silence_run, cooldown_run, q,
                    cons_pc, stop, workers, files, outputs, gui_pc, commands, cmds,
                    arrived, warnings, hist, finalized, open_at, last_step >>

\* the callback is called while the stream is open
RunArrive ==
    /\ run.pc = "streaming"
    /\ arrived < MaxRunFrames
    /\ \E lvl \in { -7000, -3000 } : Callback(lvl)

\* the consumer thread runs once it is started
RunLoopTop == run.pc # "start" /\ LoopTop

RunInit ==
    /\ \E c \in { QuickConfig, Config(30, 60, 60, 0, 90, 90, -3200, 30) } : Constructed(c)
    /\ vad = VadInit
    /\ run = NotRun

RunNext ==
    \/ RunBegin
    \/ RunOpen
    \/ RunArrive
    \/ RunLoopTop
    \/ LoopGet
    \/ LoopTimeout
    \/ \E i \in 1..Len(workers) : WorkerFilter(i)
    \/ \E i \in 1..Len(workers), r \in TranscribeResults : WorkerFinish(i, r)
    \/ RunInterrupt
    \/ RunStop
    \/ RunJoin

RunSpec == RunInit /\ [][RunNext]_vars

-----------------------------------------------------------------------------
(* request_recalibration write by write: begin_calibration is three             *)
(* assignments (calibrating, _calib_frames_done, _calib_frames_target), then    *)
(* the runner's flag; the consumer can process frames between any two of them.  *)
(* The call is recorded in cmds with the number of frames processed before it.  *)

MaxRecalFrames == 4     \* frames delivered in a run of RecalSpec
RecalLongMs == 90       \* duration passed to request_recalibration in RecalSpec

\* self.calibrating = True
RecalSetCalibrating ==
    /\ gui_pc = "idle"
    /\ cmds = << >>
    /\ vad' = [ vad EXCEPT !.calibrating = TRUE ]
    /\ gui_pc' = "done"
    /\ cmds' = << Cmd("request_recalibration", RecalLongMs) >>
    /\ UNCHANGED << noise_mag, ns_call, cfg, stopped, run, mon_lock, mon_frames, mon_q,
                    last_metrics, gui_view, runner_calibrating, paused, pre_roll,
                    seg_frames, in_speech, speech_run, silence_run, cooldown_run, q,
                    cons_pc, stop, workers, files, outputs, commands, arrived, warnings,
                    hist, finalized, open_at, last_step >>

\* self._calib_frames_done = 0
RecalResetDone ==
    /\ gui_pc = "done"
    /\ vad' = [ vad EXCEPT !.calib_frames_done = 0 ]
    /\ gui_pc' = "target"
    /\ UNCHANGED << noise_mag, ns_call, cfg, stopped, run, mon_lock, mon_frames, mon_q,
                    last_metrics, gui_view, runner_calibrating, paused, pre_roll,
                    seg_frames, in_speech, speech_run, silence_run, cooldown_run, q,
                    cons_pc, stop, workers, files, outputs, commands, cmds, arrived,
                    warnings, hist, finalized, open_at, last_step >>

\* self._calib_frames_target = max(1, int((duration_sec * 1000) // self.frame_ms))
RecalSetTarget ==
    /\ gui_pc = "target"
    /\ vad' = [ vad EXCEPT !.calib_frames_target = CalibTarget(RecalLongMs) ]
    /\ gui_pc' = "flag"
    /\ UNCHANGED << noise_mag, ns_call, cfg, stopped, run, mon_lock, mon_frames, mon_q,
                    last_metrics, gui_view, runner_calibrating, paused, pre_roll,
                    seg_frames, in_speech, speech_run, silence_run, cooldown_run, q,
                    cons_pc, stop, workers, files, outputs, commands, cmds, arrived,
                    warnings, hist, finalized, open_at, last_step >>

\* self._calibrating = True
RecalSetFlag == gui_pc = "flag" /\ RequestRecalibration

RecalInit == \E c \in { QuickConfig, Config(30, 60, 60, 0, 90, 90, -3200, 30) } : InitWith(c)

RecalArrive == arrived < MaxRecalFrames /\ \E lvl \in { -7000, -3000 } : Callback(lvl)

RecalNext ==
    \/ RecalArrive
    \/ Consume
    \/ RecalSetCalibrating
    \/ RecalResetDone
    \/ RecalSetTarget
    \/ RecalSetFlag

RecalSpec == RecalInit /\ [][RecalNext]_vars

-----------------------------------------------------------------------------
(* Segmentation with the pause button: the runner with set_paused called up to  *)
(* MaxSegToggles times, each call recorded for the second runner.               *)

MaxSegFrames == 5       \* frames delivered in a run of SegSpec
MaxSegToggles == 2      \* set_paused calls in a run of SegSpec

SegInit == Init

SegArrive == arrived < MaxSegFrames /\ \E lvl \in { -7000, -3000 } : Callback(lvl)

\* set_paused(not self._paused), as the IPC trigger and the GUI button call it
SegSetPaused ==
    /\ commands < MaxSegToggles
    /\ commands' = commands + 1
    /\ paused' = ~paused
    /\ cmds' = Append(cmds, Cmd("set_paused", ~paused))
    /\ UNCHANGED << noise_mag, ns_call, cfg, vad, stopped, run, mon_lock, mon_frames,
                    mon_q, last_metrics, gui_view, runner_calibrating, pre_roll,
                    seg_frames, in_speech, speech_run, silence_run, cooldown_run, q,
                    cons_pc, stop, workers, files, outputs, gui_pc, arrived, warnings,
                    hist, finalized, open_at, last_step >>

SegNext ==
    \/ SegArrive
    \/ Consume
    \/ SegSetPaused

SegSpec == SegInit /\ [][SegNext]_vars

-----------------------------------------------------------------------------
(* Monitoring enabled: the consumer publishes every frame it has processed,    *)
(* step by step, while the GUI's timer reads.                                  *)

MonInit ==
    \E c \in { QuickConfig, Config(30, 60, 60, 0, 90, 90, -3200, 30) } :
        InitWith([ c EXCEPT !.monitor = TRUE ])

MonArrive == arrived < MaxMonFrames /\ \E lvl \in Levels : Callback(lvl)

MonNext ==
    \/ MonArrive
    \/ Consume
    \/ MonPut
    \/ MonAcquire
    \/ MonAppend
    \/ MonMetrics
    \/ GuiDrain
    \/ GuiAcquire
    \/ GuiReadLast
    \/ GuiThresholds
    \/ SetPaused

MonSpec == MonInit /\ [][MonNext]_vars

-----------------------------------------------------------------------------
(* Claims *)

needed == min_silence_frames + post_roll_frames

\* seg holds the frames hist[lo..hi] as one run, in order
HoldsRun(seg, lo, hi) ==
    \E off \in 0..Len(seg) :
        \A k \in lo..hi : off + (k - lo) + 1 <= Len(seg) /\ seg[off + (k - lo) + 1] = hist[k]

\* C1 (as claimed): a finalized segment that opened on frame N holds the frames
\* N - pre_roll_frames .. N of the processed stream, in arrival order.
C1_PreRollInclusion ==
    \A i \in 1..Len(finalized) :
        LET s == finalized[i]
        IN  HoldsRun(s.audio, Max(1, s.opened - pre_roll_frames), s.opened)

\* C2 (as claimed): once the scenario's 40 frames are processed there is exactly one
\* finalized segment, of 15 to 20 frames: up to 5 pre-roll frames, the 10 speech
\* frames (6..15) and 5 post-roll frames (16..20).
C2_ScenarioSegment ==
    Len(hist) = Len(Scenario) =>
        /\ Len(finalized) = 1
        /\ Len(finalized[1].audio) \in 15..20
        /\ HoldsRun(finalized[1].audio, 6, 20)

\* C3 (as claimed): after a segment is finalized on processed frame c, no segment
\* opens on any of the frames c+1 .. c+cooldown_frames.
C3_Cooldown ==
    /\ \A i \in 1..(Len(finalized) - 1) :
           finalized[i + 1].opened - finalized[i].closed > cooldown_frames
    /\ (in_speech /\ finalized # << >>) =>
           open_at - finalized[Len(finalized)].closed > cooldown_frames

\* C4 (as claimed): a finalized segment ends with exactly post_roll_frames of the
\* silent frames that followed its last speech frame, i.e. with the first
\* post_roll_frames frames of the closing silence run.
C4_PostRollRetained ==
    \A i \in 1..Len(finalized) :
        LET s == finalized[i]
            first == s.closed - needed + 1
        IN  post_roll_frames > 0 =>
                /\ Len(s.audio) >= post_roll_frames
                /\ SubSeq(s.audio, Len(s.audio) - post_roll_frames + 1, Len(s.audio))
                       = SubSeq(hist, first, first + post_roll_frames - 1)

\* C5: a frame handed to is_speech while the VAD is calibrating gets the answer
\* false whatever its level, and no segment opens on a frame processed as a
\* calibration frame, by the runner's own branch or by is_speech.
C5_CalibrationSuppresses ==
    LET viaVad    == last_step.kind = "detect" /\ last_step.before.calibrating
        viaRunner == last_step.kind = "calib"
    IN  /\ viaVad => ~last_step.speaking
        /\ (viaVad \/ viaRunner) => (~last_step.opened /\ open_at # Len(hist))

\* C5 witness: is_speech was called during calibration with a frame at or above the
\* start threshold
C5_Witness ==
    /\ last_step.kind = "detect"
    /\ last_step.before.calibrating
    /\ last_step.frame.lvl >= StartThr(last_step.before.noise_db)

\* the frame of the last is_speech call lies between the keep and the start
\* threshold computed from noise floor n
BetweenThresholds(n) ==
    /\ last_step.kind = "detect"
    /\ ~last_step.before.calibrating
    /\ KeepThr(n) <= last_step.frame.lvl
    /\ last_step.frame.lvl < StartThr(n)

\* C6: a frame between the keep and the start threshold (as get_thresholds_db gives
\* them before the call, or as is_speech computes them) leaves the speaking flag as
\* it was: a speaking VAD keeps speaking, a not-speaking VAD does not start.
C6_Hysteresis ==
    (BetweenThresholds(last_step.before.noise_db) \/ BetweenThresholds(vad.noise_db))
        => last_step.speaking = last_step.before.speaking

\* C6 witness: a speaking VAD was kept speaking by a frame below the start threshold
C6_Witness ==
    /\ BetweenThresholds(last_step.before.noise_db)
    /\ last_step.before.speaking
    /\ last_step.speaking

\* C7: with the default margins and absolute bounds the keep threshold never
\* exceeds the start threshold, for every noise floor reached.
C7_ThresholdOrder == KeepThr(vad.noise_db) <= StartThr(vad.noise_db)

\* C7 witness: is_speech ran with a noise floor high enough for both thresholds to be
\* the noise-relative ones
C7_Witness ==
    /\ last_step.kind = "detect"
    /\ vad.noise_db + keep_margin_db > abs_keep_db
    /\ vad.noise_db + start_margin_db > abs_start_db

IsShort(audio) == (1000 * Len(audio) * N) \div cfg.fs < cfg.min_segment_ms

NeverTranscribed(w, drop_pc) ==
    /\ workers[w].invoked = 0
    /\ workers[w].pc \in { "started", drop_pc }
    /\ \A k \in 1..Len(outputs) : outputs[k].worker # w

\* C8 (as claimed): no worker is started for a finalized segment shorter than
\* min_segment_ms.
C8_ShortNoWorker ==
    \A i \in 1..Len(finalized) :
        IsShort(finalized[i].audio) => finalized[i].worker = 0

\* C8 (amended): a finalized segment shorter than min_segment_ms is never
\* transcribed and produces no output; a worker is started for it exactly when it
\* has at least 3 frames, and that worker stops at its duration check.
C8_ShortNeverTranscribed ==
    \A i \in 1..Len(finalized) :
        LET s == finalized[i]
        IN  IsShort(s.audio) =>
                /\ s.worker # 0 <=> Len(s.audio) >= MinAsyncFrames
                /\ s.worker # 0 => NeverTranscribed(s.worker, "drop_short")

\* C8 witness: a worker was started for a short segment and dropped it
C8_Witness ==
    \E w \in 1..Len(workers) :
        workers[w].pc = "drop_short" /\ IsShort(workers[w].audio)

\* C9: a finalized segment that is long enough but whose level is below
\* min_rms_dbfs is never transcribed and produces no output.
C9_QuietNeverTranscribed ==
    \A i \in 1..Len(finalized) :
        LET s == finalized[i]
        IN  (~IsShort(s.audio) /\ SegDbBelow(s.audio, cfg.min_rms_dbfs) /\ s.worker # 0)
                => NeverTranscribed(s.worker, "drop_quiet")

\* C9 witness: a worker dropped a long-enough segment for its level
C9_Witness ==
    \E w \in 1..Len(workers) :
        workers[w].pc = "drop_quiet" /\ ~IsShort(workers[w].audio)

\* C10: the queue never holds more than its capacity; when it is full the callback
\* can still run (it does not wait), and every way it can run leaves the queue as it
\* was (the new frame is dropped) and logs one warning.
C10_QueueOverflow ==
    /\ Len(q) <= QueueMax
    /\ (QueueFull(q) /\ ~stop /\ arrived < MaxFrames) =>
           /\ ENABLED Arrive
           /\ ~ENABLED (Arrive /\ ~(q' = q /\ warnings' = warnings + 1))

\* C10 witness: a frame arrived while the queue was full
C10_Witness == warnings > 0 /\ Len(q) = QueueMax

\* C11 (as claimed): a worker that has written its WAV file and not yet transcribed
\* it finds there the audio of its own segment, and every text delivered by a
\* worker is the text of that worker's own segment.
C11_SegmentIndependence ==
    /\ \A w \in 1..Len(workers) :
           workers[w].pc = "transcribing" =>
               (Exists(files, WavPath(w)) /\ Content(files, WavPath(w)) = w)
    /\ \A k \in 1..Len(outputs) : outputs[k].seg = outputs[k].worker

\* C12 (as claimed): every step that changes the VAD's state is a step of the
\* consumer (a step that processes a frame).
C12_VadOwnership == [][vad' # vad => hist' # hist]_vars

Running(w) == workers[w].pc \in { "started", "transcribing" }

Ends(audio) == IF audio = << >> THEN << >> ELSE << audio[1], audio[Len(audio)] >>

FailsNow(i) ==
    /\ i <= Len(workers)
    /\ workers[i].pc = "transcribing"
    /\ workers'[i].pc \in { "failed", "no_text" }

\* C15 (as claimed): a step in which a segment's transcription raises or gives no
\* text has called the transcriber once for it, sends nothing to the outputs, and
\* leaves the consumer and the other segments as they were: the other workers'
\* state, and the WAV file of every worker that is about to transcribe.
C15_FailureNonFatal ==
    [][ \A i \in 1..Len(workers) :
            FailsNow(i) =>
                /\ workers'[i].invoked = 1
                /\ outputs' = outputs
                /\ << q, hist, cons_pc, finalized, seg_frames, in_speech >>'
                       = << q, hist, cons_pc, finalized, seg_frames, in_speech >>
                /\ \A j \in 1..Len(workers) \ { i } :
                       /\ workers'[j] = workers[j]
                       /\ (workers[j].pc = "transcribing" /\ Exists(files, WavPath(j)))
                              => Exists(files', WavPath(j)) ]_vars

\* C16: enhance called on a NoiseSuppressor that has learned no baseline raises
\* nothing and returns its argument, sample for sample.
C16_EnhanceNoOp ==
    (ns_call.called /\ ns_call.noise = << >>) =>
        (~ns_call.raised /\ ns_call.out = ns_call.audio)

\* C16 witness: enhance was called without a baseline on audio of at least one
\* frame with a sample below the floor, which the subtraction would have changed
C16_Witness ==
    /\ ns_call.called
    /\ ns_call.noise = << >>
    /\ Len(ns_call.audio) >= NsN
    /\ \E k \in 1..Len(ns_call.audio) : ns_call.audio[k] = 0

\* audio is hist[lo .. lo + Len(audio) - 1] for some lo
ContiguousRun(audio) ==
    \E lo \in 1..(Len(hist) + 1) :
        /\ lo + Len(audio) - 1 <= Len(hist)
        /\ \A k \in 1..Len(audio) : audio[k] = hist[lo + k - 1]

\* C17 (as claimed): every finalized segment is a run of consecutive frames of the
\* processed stream, in order: no frame processed between its first and its last
\* frame is missing from it.
C17_SegmentContiguity ==
    \A i \in 1..Len(finalized) : ContiguousRun(finalized[i].audio)

\* C18: the frames processed so far, followed by the frames waiting in the queue,
\* are in strictly increasing order of arrival: the consumer takes frames in the
\* order the callback enqueued them, none twice and none before an earlier one.
C18_ArrivalOrder ==
    LET all == hist \o q
    IN  /\ \A i \in 1..(Len(all) - 1) : all[i].id < all[i + 1].id
        /\ \A i \in 1..Len(all) : all[i].id \in 1..arrived

\* C18 witness: three frames were processed, with a frame dropped on overflow
\* absent between two of them
C18_Witness ==
    /\ Len(hist) >= 3
    /\ \E k \in 1..(Len(hist) - 1) : hist[k + 1].id > hist[k].id + 1

\* C19: once stop is set the consumer processes at most the frame of the iteration
\* it was in (it had passed the stop check and was at the queue pop), whatever the
\* queue holds; that pop ends with a frame or with the timeout; the next stop
\* check leaves the loop, and nothing runs after that.
C19_StopSignal ==
    stop =>
        /\ Len(hist) <= stopped.at + (IF stopped.pc = "get" THEN 1 ELSE 0)
        /\ cons_pc = "get" =>
               /\ stopped.pc = "get" /\ Len(hist) = stopped.at
               /\ ENABLED (LoopGet \/ LoopTimeout)
        /\ cons_pc = "top" => (ENABLED LoopTop /\ ~ENABLED (LoopTop /\ cons_pc' # "exit"))
        /\ cons_pc = "exit" => ~ENABLED (LoopTop \/ LoopGet \/ LoopTimeout)

\* C19 witness: the loop has ended with frames left in the queue
C19_Witness == stop /\ cons_pc = "exit" /\ q # << >>

\* the consumer publishes in this step
Publishes == mon_frames' # mon_frames \/ last_metrics' # last_metrics

\* the snapshot is written only by a consumer that holds the monitor lock
PublishedUnderLock == Publishes => mon_lock = "consumer"

\* back at the top of the loop, the snapshot is that of the frame just processed
PublishedOncePerFrame ==
    (cfg.monitor /\ cons_pc # "top" /\ cons_pc' = "top") =>
        /\ last_metrics'.of = hist[Len(hist)].id
        /\ mon_frames'[Len(mon_frames')] = hist[Len(hist)]

\* a step of the GUI's timer leaves the VAD, the runner and the snapshot as they were
ReaderMutatesNothing ==
    gui_view' # gui_view =>
        << vad, mon_frames, last_metrics, q, hist, paused, runner_calibrating >>'
            = << vad, mon_frames, last_metrics, q, hist, paused, runner_calibrating >>

\* the thresholds the GUI draws are those of the published metrics
ReadsFromSnapshot ==
    << gui_view.start_thr_db, gui_view.keep_thr_db >>'
            # << gui_view.start_thr_db, gui_view.keep_thr_db >>
        => << gui_view.start_thr_db, gui_view.keep_thr_db >>'
               = << last_metrics.start_thr_db, last_metrics.keep_thr_db >>

\* C20 (as claimed): with monitoring enabled the consumer publishes the snapshot
\* (recent frames, last metrics) once per processed frame and only while it holds
\* the monitor lock; the readers take the VAD's values from the snapshot and
\* change nothing.
C20_MonitoringSnapshot ==
    [][ /\ PublishedUnderLock
        /\ PublishedOncePerFrame
        /\ ReaderMutatesNothing
        /\ ReadsFromSnapshot ]_vars

\* C21: once the input stream has failed to open, one diagnostic has been written;
\* no frame ever arrives, so nothing is processed, finalized or dispatched; run()
\* goes on to set stop, joins the consumer thread and returns; and the consumer,
\* if the join timed out before it ended, can only leave its loop.
C21_FatalAudioFailure ==
    run.diagnostics > 0 =>
        /\ run.diagnostics = 1
        /\ arrived = 0 /\ q = << >> /\ hist = << >>
        /\ finalized = << >> /\ workers = << >> /\ outputs = << >>
        /\ run.pc \in { "failed", "join", "returned" }
        /\ run.pc = "failed" => (~stop /\ ENABLED RunStop)
        /\ run.pc = "join" => (stop /\ ENABLED RunJoin)
        /\ run.pc = "returned" =>
               /\ stop
               /\ ConsumerThread \in run.joined
               /\ ~ENABLED (RunBegin \/ RunOpen \/ RunArrive \/ RunStop \/ RunJoin)
               /\ cons_pc \in { "top", "get", "exit" }
               /\ cons_pc = "top" => ~ENABLED (RunLoopTop /\ cons_pc' # "exit")
               /\ cons_pc = "get" => (ENABLED LoopTimeout /\ ~ENABLED LoopGet)

\* C21 witness: run() has returned after the stream failed to open, and the
\* consumer thread has ended
C21_Witness == run.pc = "returned" /\ run.diagnostics = 1 /\ cons_pc = "exit"

\* C22 (as claimed): when run() has returned, it has joined every transcription
\* worker that was started before stop was set and is still running; no worker
\* was cancelled.
C22_WorkersJoined ==
    /\ \A w \in 1..Len(workers) : workers[w].pc # "cancelled"
    /\ run.pc = "returned" =>
           \A i \in 1..Len(finalized) :
               LET w == finalized[i].worker
               IN  (w # 0 /\ finalized[i].closed <= stopped.at /\ Running(w))
                       => w \in run.joined

\* C23: the workers are in the order their segments were finalized: of two
\* finalized segments that got a worker, the one finalized first has the worker
\* started first, and each worker holds the audio of its own segment.
C23_DispatchOrder ==
    \A i, j \in 1..Len(finalized) :
        LET a == finalized[i]
            b == finalized[j]
        IN  (a.worker # 0 /\ b.worker # 0 /\ a.closed < b.closed) =>
                /\ a.worker < b.worker
                /\ b.worker <= Len(workers)
                /\ workers[a.worker].audio = a.audio
                /\ workers[b.worker].audio = b.audio

\* C23 witness: two workers delivered their texts, the one started later first
C23_Witness ==
    /\ Len(outputs) >= 2
    /\ outputs[1].worker > outputs[2].worker
    /\ \E i, j \in 1..Len(finalized) :
           /\ finalized[i].closed < finalized[j].closed
           /\ finalized[i].worker = outputs[2].worker
           /\ finalized[j].worker = outputs[1].worker

\* C24 (as claimed): a step in which the consumer processes a frame in its
\* calibration branch leaves in_speech, speech_run, silence_run, the segment buffer
\* and the pre-roll buffer as they were, and finalizes and dispatches nothing.
C24_CalibrationSkipsDetection ==
    [][ (hist' # hist /\ last_step'.kind = "calib") =>
            /\ << in_speech, speech_run, silence_run, seg_frames, pre_roll >>'
                   = << in_speech, speech_run, silence_run, seg_frames, pre_roll >>
            /\ finalized' = finalized
            /\ workers' = workers ]_vars

\* the arrival numbers of the frames of a segment
FrameIds(audio) == { audio[k].id : k \in 1..Len(audio) }

\* C25 (as claimed): no frame is in two finalized segments, nor twice in one.
C25_NoFrameReuse ==
    /\ \A i \in 1..Len(finalized) :
           Cardinality(FrameIds(finalized[i].audio)) = Len(finalized[i].audio)
    /\ \A i, j \in 1..Len(finalized) :
           i # j => FrameIds(finalized[i].audio) \cap FrameIds(finalized[j].audio) = { }

\* a frame of level lvl leaves the VAD speaking and in the state it was in: every
\* further frame of that level does the same
SpeakingFixpoint(v, lvl) == IsSpeech(v, lvl).speaking /\ IsSpeech(v, lvl) = v

\* C26 (as claimed), on finite runs: with a segment open and the runner neither
\* paused nor calibrating, a frame of any level either ends the VAD's speaking or
\* changes the VAD's state (the noise floor moves toward that level); there is no
\* state from which frames of one level keep the VAD speaking for ever.
C26_StationaryCloses ==
    (in_speech /\ ~paused /\ ~runner_calibrating /\ ~vad.calibrating) =>
        \A lvl \in Levels : ~SpeakingFixpoint(vad, lvl)

\* the last frame processed was treated as a calibration frame: by the runner's
\* calibration branch, or by is_speech called on a calibrating VAD
CalibrationStep ==
    \/ last_step.kind = "calib"
    \/ last_step.kind = "detect" /\ last_step.before.calibrating

\* C27 (as claimed): each of the first max(1, d*1000 // frame_ms) frames processed
\* after request_recalibration(d) was invoked is treated as a calibration frame,
\* wherever the call's writes fall between the frames.
C27_RecalibrationFullLength ==
    \A k \in 1..Len(cmds) :
        LET c == cmds[k]
        IN  (/\ c.op = "request_recalibration"
             /\ Len(hist) > c.at
             /\ Len(hist) <= c.at + CalibTarget(c.arg)) => CalibrationStep

\* C28 (as claimed): outside calibration, a frame for which is_speech returned
\* true has left noise_db as it was before the call.
C28_NoiseOnlyInSilence ==
    (last_step.kind = "detect" /\ ~last_step.before.calibrating /\ last_step.speaking)
        => vad.noise_db = last_step.before.noise_db

\* C28 (amended): outside calibration, a frame handed to is_speech while the VAD
\* was speaking leaves noise_db as it was, whatever is_speech answers; a frame
\* handed to it while the VAD was not speaking moves noise_db by the EMA toward the
\* frame's level, whatever is_speech answers (the frame that starts speech
\* included).
C28_NoiseFrozenWhileSpeaking ==
    (last_step.kind = "detect" /\ ~last_step.before.calibrating) =>
        vad.noise_db = IF last_step.before.speaking THEN last_step.before.noise_db
                       ELSE Ema(last_step.before, last_step.frame.lvl)

\* C28 witness: a frame judged as silence ended the speech and left noise_db, which
\* differs from the frame's level, as it was
C28_Witness ==
    /\ last_step.kind = "detect"
    /\ last_step.before.speaking
    /\ ~last_step.speaking
    /\ last_step.frame.lvl # last_step.before.noise_db
    /\ vad.noise_db = last_step.before.noise_db

\* C29 (as claimed): outside calibration, a step that processes a frame answered
\* as speech, or a frame while a segment is open, leaves noise_mag as it was.
C29_SpectralBaselineIdleOnly ==
    [][ (/\ hist' # hist
         /\ last_step'.kind = "detect"
         /\ ~last_step'.before.calibrating
         /\ (last_step'.speaking \/ in_speech)) => noise_mag' = noise_mag ]_vars

\* C30 (as claimed): when the frame just processed was a calibration frame and
\* has ended the calibration (neither the VAD nor the runner is calibrating any
\* more), the VAD's speaking flag is false.
C30_NotSpeakingAfterCalibration ==
    (CalibrationStep /\ ~vad.calibrating /\ ~runner_calibrating) => ~vad.speaking

\* The second runner just before it is given frame k, and what the loop body
\* makes of that frame: "speech" or "silence" (a calibration frame is silence:
\* speaking = False), or "none" when the pause branch takes the frame.
Before(k) == TwinCommands(Twin(k - 1), k - 1)

Verdict(k) ==
    LET t == Before(k)
    IN  IF t.calibrating THEN "silence"
        ELSE IF t.paused THEN "none"
        ELSE IF IsSpeech(t.vad, hist[k].lvl).speaking THEN "speech"
        ELSE "silence"

\* the number of speech frames that end the classified frames among hist[1..k]
RECURSIVE SpeechRunAt(_)
SpeechRunAt(k) ==
    IF k = 0 THEN 0
    ELSE CASE Verdict(k) = "none" -> SpeechRunAt(k - 1)
           [] Verdict(k) = "speech" -> SpeechRunAt(k - 1) + 1
           [] Verdict(k) = "silence" -> 0

\* the frames on which a segment was opened
Openings ==
    { finalized[i].opened : i \in 1..Len(finalized) }
        \cup (IF in_speech THEN { open_at } ELSE { })

\* C31: every frame on which a segment was opened was classified as speech and
\* completed a run of at least min_speech_frames speech frames, uninterrupted by
\* a non-speech frame (frames taken by the pause branch are not classified and
\* are passed over); the runner's speech_run is the length of that run.
C31_SpeechRunOpens ==
    /\ speech_run = SpeechRunAt(Len(hist))
    /\ \A o \in Openings :
           /\ o \in 1..Len(hist)
           /\ Verdict(o) = "speech"
           /\ SpeechRunAt(o) >= min_speech_frames

\* C31 witness: with min_speech_frames = 2, a speech frame was followed by a
\* non-speech frame without a segment opening, and a segment opened later
C31_Witness ==
    /\ min_speech_frames = 2
    /\ Openings # { }
    /\ \E k \in 1..(Len(hist) - 1) :
           /\ Verdict(k) = "speech" /\ Verdict(k + 1) = "silence"
           /\ \A o \in Openings : o > k + 1

\* the number of non-speech frames that end the classified frames among hist[1..k]
RECURSIVE SilenceRunAt(_)
SilenceRunAt(k) ==
    IF k = 0 THEN 0
    ELSE CASE Verdict(k) = "none" -> SilenceRunAt(k - 1)
           [] Verdict(k) = "silence" -> SilenceRunAt(k - 1) + 1
           [] Verdict(k) = "speech" -> 0

\* the classified frames among hist[a..b], in order
RECURSIVE ClassifiedFrames(_, _)
ClassifiedFrames(a, b) ==
    IF b < a THEN << >>
    ELSE IF Verdict(b) = "none" THEN ClassifiedFrames(a, b - 1)
    ELSE Append(ClassifiedFrames(a, b - 1), hist[b])

\* C32: while a segment is open every classified frame since its opening, speech
\* or not, is at the end of the segment buffer in order, and the run of
\* non-speech frames is still shorter than min_silence_frames + post_roll_frames;
\* every finalized segment was finalized on a non-speech frame that made that
\* run exactly min_silence_frames + post_roll_frames long, no frame of the
\* segment before it having reached it (a speech frame restarts the run at zero).
C32_FinalizeTiming ==
    /\ in_speech =>
           LET fs == ClassifiedFrames(open_at, Len(hist))
           IN  /\ Len(fs) <= Len(seg_frames)
               /\ SubSeq(seg_frames, Len(seg_frames) - Len(fs) + 1, Len(seg_frames)) = fs
               /\ SilenceRunAt(Len(hist)) < needed
               /\ silence_run = SilenceRunAt(Len(hist))
    /\ \A i \in 1..Len(finalized) :
           LET s == finalized[i]
           IN  /\ s.opened < s.closed
               /\ Verdict(s.closed) = "silence"
               /\ SilenceRunAt(s.closed) = needed
               /\ \A k \in s.opened..(s.closed - 1) : SilenceRunAt(k) < needed

\* C32 witness: with two non-speech frames needed, the frame just processed was
\* the second non-speech frame in a row of an open segment and finalized it
C32_Witness ==
    /\ needed = 2
    /\ finalized # << >>
    /\ last_step.closed
    /\ finalized[Len(finalized)].closed = Len(hist)
    /\ Verdict(Len(hist) - 1) = "silence"
    /\ finalized[Len(finalized)].opened < Len(hist) - 1

\* C33: a frame processed while the runner is paused and not calibrating opens,
\* finalizes and dispatches nothing, leaves the VAD, the spectral baseline,
\* in_speech, speech_run, silence_run, cooldown_run and the segment buffer as
\* they were, and is appended to the pre-roll buffer; with monitoring the
\* consumer goes on to _mon_frames and _last_metrics, past mon_q.
C33_PauseFreezes ==
    [][ (hist' # hist /\ paused /\ ~runner_calibrating) =>
            /\ UNCHANGED << vad, noise_mag, in_speech, speech_run, silence_run,
                            cooldown_run, seg_frames, finalized, open_at, workers,
                            outputs, files, mon_q, runner_calibrating >>
            /\ pre_roll' = PreRollAppend(pre_roll, Head(q))
            /\ hist' = Append(hist, Head(q))
            /\ cfg.monitor => cons_pc' = "mon_lock" ]_vars

\* C33 witness: a frame was processed under pause while a segment was open; it
\* is the newest frame of the pre-roll buffer and of _mon_frames and is not in
\* the segment buffer
C33_Witness ==
    /\ paused
    /\ last_step.kind = "paused"
    /\ in_speech
    /\ speech_run > 0
    /\ pre_roll # << >>
    /\ pre_roll[Len(pre_roll)] = hist[Len(hist)]
    /\ mon_frames # << >>
    /\ mon_frames[Len(mon_frames)] = hist[Len(hist)]
    /\ \A i \in 1..Len(seg_frames) : seg_frames[i] # hist[Len(hist)]

\* The latest begin_calibration call: the number of frames processed before it
\* was invoked and its duration; run()'s own call when the GUI made none.
BeginCalls == { k \in 1..Len(cmds) : cmds[k].op \in { "begin_calibration",
                                                       "request_recalibration" } }

LastBegin ==
    IF BeginCalls = { } THEN [ at |-> 0, ms |-> cfg.calib_ms ]
    ELSE LET k == CHOOSE i \in BeginCalls : \A j \in BeginCalls : j <= i
         IN  [ at |-> cmds[k].at, ms |-> cmds[k].arg ]

\* C34 (as claimed): the frame on which the VAD leaves calibration mode is frame
\* number max(1, duration*1000 // frame_ms) after the latest begin_calibration
\* call, the runner's flag is clear after that frame, and the VAD is in
\* calibration mode on no later frame of that call.
C34_CalibrationLength ==
    [][ hist' # hist =>
          /\ (vad.calibrating /\ ~vad'.calibrating) =>
                 /\ Len(hist') - LastBegin.at = CalibTarget(LastBegin.ms)
                 /\ ~runner_calibrating'
          /\ vad'.calibrating => Len(hist') - LastBegin.at < CalibTarget(LastBegin.ms)
      ]_vars

\* the frame about to be processed is handed to feed_calibration, by the loop's
\* calibration branch or by is_speech
FedToCalibration == runner_calibrating \/ (~paused /\ vad.calibrating)

\* C35 (as claimed): the first frame fed to calibration after the latest
\* begin_calibration call leaves noise_db at exactly that frame's level, and
\* every later calibration frame of that call moves noise_db by the EMA.
C35_CalibrationSeeding ==
    [][ (hist' # hist /\ FedToCalibration) =>
            vad'.noise_db = IF Len(hist) = LastBegin.at THEN Head(q).lvl
                            ELSE Ema(vad, Head(q).lvl) ]_vars

\* the frames among hist[1..k] that satisfy P, in order
RECURSIVE FramesWhere(_, _)
FramesWhere(P(_), k) ==
    IF k = 0 THEN << >>
    ELSE IF P(k) THEN Append(FramesWhere(P, k - 1), hist[k])
    ELSE FramesWhere(P, k - 1)

\* the last n elements of a sequence
LastFrames(seq, n) == SubSeq(seq, Max(1, Len(seq) - n + 1), Len(seq))

\* frame k was classified as silent while the runner was Idle
IdleSilent(k) == Verdict(k) = "silence" /\ ~Before(k).in_speech

\* frame k was taken by the pause branch
TakenPaused(k) == Verdict(k) = "none"

\* frame k was silent while Idle or taken by the pause branch
IdleSilentOrPaused(k) == IdleSilent(k) \/ TakenPaused(k)

\* C36 (as claimed): the pre-roll buffer holds at most pre_roll_frames frames
\* and they are the most recent frames classified as silent while Idle, in
\* arrival order.
C36_PreRollIdleSilence ==
    /\ Len(pre_roll) <= pre_roll_frames
    /\ pre_roll = LastFrames(FramesWhere(IdleSilent, Len(hist)), pre_roll_frames)

\* C36 (amended): the pre-roll buffer holds at most pre_roll_frames frames and
\* they are the most recent frames that were either classified as silent while
\* Idle or processed while paused, in arrival order.
C36_PreRollRecentFrames ==
    /\ Len(pre_roll) <= pre_roll_frames
    /\ pre_roll = LastFrames(FramesWhere(IdleSilentOrPaused, Len(hist)), pre_roll_frames)

\* C36 witness: the full buffer has evicted its oldest frame, and holds a frame
\* that was silent while Idle after one taken under pause
C36_Witness ==
    /\ Len(pre_roll) = pre_roll_frames
    /\ Len(FramesWhere(IdleSilentOrPaused, Len(hist))) > pre_roll_frames
    /\ \E k \in 1..(Len(hist) - 1) :
           /\ TakenPaused(k) /\ hist[k] = pre_roll[1]
           /\ IdleSilent(Len(hist)) /\ hist[Len(hist)] = pre_roll[Len(pre_roll)]

\* C37: whenever the runner is Idle the segment buffer is empty and whenever it
\* is Accumulating the buffer is not; the buffer goes from empty to non-empty
\* only on the frame that opens a segment, and the frame that finalizes a
\* segment leaves the buffer empty and the runner Idle.
C37_SegmentBufferLifetime ==
    [][ /\ in_speech <=> seg_frames # << >>
        /\ in_speech' <=> seg_frames' # << >>
        /\ (seg_frames = << >> /\ seg_frames' # << >>) =>
               (~in_speech /\ in_speech' /\ last_step'.opened)
        /\ (finalized' # finalized) =>
               (seg_frames # << >> /\ seg_frames' = << >> /\ ~in_speech')
        /\ (seg_frames # << >> /\ seg_frames' = << >>) =>
               (Len(finalized') = Len(finalized) + 1) ]_vars

\* C37 witness: a segment has been finalized and a later one is open
C37_Witness ==
    /\ finalized # << >>
    /\ in_speech
    /\ seg_frames # << >>

\* C38: the step on which the consumer leaves its loop finalizes nothing, starts
\* no worker and leaves the segment buffer as it is, and so does every step after
\* it; when the loop was left with a segment open, every finalized segment was
\* closed before that segment opened, every worker belongs to a finalized
\* segment, and every output comes from such a worker.
C38_StopDiscardsOpenSegment ==
    [][ (cons_pc' = "exit") =>
            /\ finalized' = finalized
            /\ Len(workers') = Len(workers)
            /\ seg_frames' = seg_frames
            /\ in_speech' = in_speech
            /\ in_speech' =>
                   /\ \A i \in 1..Len(finalized') : finalized'[i].closed < open_at'
                   /\ \A w \in 1..Len(workers') :
                          \E i \in 1..Len(finalized') : finalized'[i].worker = w
                   /\ \A o \in 1..Len(outputs') :
                          outputs'[o].worker \in 1..Len(workers') ]_vars

\* C38 witness: run() has returned and the consumer has left its loop with an
\* open segment long enough for a worker; none was started
C38_Witness ==
    /\ run.pc = "returned"
    /\ stop
    /\ cons_pc = "exit"
    /\ in_speech
    /\ Len(seg_frames) >= MinAsyncFrames
    /\ workers = << >>
    /\ outputs = << >>

====
